---- MODULE Spec2Model ----
(***************************************************************************)
(* A model of visualize_data.py: one process that resolves up to three     *)
(* positional arguments, loads a fixed .npz archive, renders a two-panel   *)
(* figure, saves it to a fixed path and shows it.  A run is a sequence of  *)
(* steps of main(); Rerun starts the program again with the same command   *)
(* line and the same input file, so that runs can be compared.             *)
(*                                                                         *)
(* Floating-point values are modelled by the integers they denote (the     *)
(* model only uses integer-valued thresholds and expression levels), and   *)
(* strings by TLA+ strings, except the threshold argument, which is a      *)
(* sequence of characters so that float() is modelled as a parser.         *)
(* Archives are well-formed in the sense of the input format: the six      *)
(* arrays of an archive that has them all are of one length.  savefig and  *)
(* show are modelled as succeeding.                                        *)
(***************************************************************************)
EXTENDS Integers, Sequences, FiniteSets, TLC

VARIABLES sys_argv,      \* the command line, sys_argv[1] is the program name
          file,          \* what is at DATA_PATH
          output_file,   \* what is at /results/single_cell_viz.png
          pc,            \* position of the run in main()
          threshold, title, cell_type,   \* the locals of main()
          data, fig,                     \* the locals of main()
          stdout, stderr, exit_code,     \* the process's output and status
          calls,         \* the calls main() has made in this run, in order
          run,           \* number of the current run
          out_at_start,  \* output_file when the current run started
          prev           \* outcome of the previous run, <<>> in the first

vars == <<sys_argv, file, output_file, pc, threshold, title, cell_type, data,
          fig, stdout, stderr, exit_code, calls, run, out_at_start, prev>>

----------------------------------------------------------------------------
(* Bounds of the model *)

MaxCells == 2
MaxRuns == 2

----------------------------------------------------------------------------
(* Module constants, lines 18-24 *)

DATA_PATH == "/data/experiment/single_cell_data.npz"
DEFAULT_THRESHOLD == 2
DEFAULT_TITLE == "Single Cell Analysis"
DEFAULT_CELL_TYPE_caps == "T_cells"
DEFAULT_CELL_TYPE == "t_cells"
OUTPUT_PATH == "/results/single_cell_viz.png"

valid_types == <<"t_cells", "b_cells", "monocytes", "nk_cells">>

(* A local of main() is <<>> until it is assigned and <<v>> after *)
None == <<>>
Some(v) == <<v>>

Range(s) == {s[i] : i \in 1..Len(s)}

----------------------------------------------------------------------------
(* float(): the characters of the argument, parsed as a decimal number.    *)
(* Only unsigned digit strings are in the model's inputs; anything else    *)
(* raises ValueError.                                                      *)

Digits == <<"0", "1", "2", "3", "4", "5", "6", "7", "8", "9">>

IsDigit(c) == \E d \in 1..Len(Digits) : Digits[d] = c

DigitVal(c) == (CHOOSE d \in 1..Len(Digits) : Digits[d] = c) - 1

FloatOk(s) == Len(s) > 0 /\ \A i \in 1..Len(s) : IsDigit(s[i])

RECURSIVE FloatVal(_)
FloatVal(s) ==
    IF Len(s) = 0 THEN 0
    ELSE 10 * FloatVal(SubSeq(s, 1, Len(s) - 1)) + DigitVal(s[Len(s)])

(* Python's len(sys.argv) and sys.argv[i], with Python's indices *)
ArgC == Len(sys_argv)
Arg(i) == sys_argv[i + 1]

----------------------------------------------------------------------------
(* The inputs: command lines and archives *)

ThresholdArgs == {<<"1">>, <<"3">>, <<"2", "x">>}
TitleArgs == {"My Experiment"}
CellTypeArgs == Range(valid_types) \cup {"x_cells"}

CommandLines ==
    LET prog == <<"visualize_data.py">> IN
    {prog}
    \cup {prog \o <<t>> : t \in ThresholdArgs}
    \cup {prog \o <<t, ti>> : t \in ThresholdArgs, ti \in TitleArgs}
    \cup {prog \o <<t, ti, c>> :
            t \in ThresholdArgs, ti \in TitleArgs, c \in CellTypeArgs}

Keys == <<"x", "y", "cell_types", "gene1", "gene2", "colors">>

DataLabels == {"t_cells", "b_cells"}
GeneValues == {2, 3}
Palette == <<"#e74c3c", "#3498db", "#2ecc71", "#f39c12">>

(* An archive holding n cells: coordinates and colours are fixed by the    *)
(* cell index, labels and expression levels are the arguments.             *)
Archive(ct, g1, g2) ==
    LET n == Len(ct) IN
    [kind |-> "npz",
     arrays |-> [x |-> [i \in 1..n |-> i],
                 y |-> [i \in 1..n |-> n - i],
                 cell_types |-> ct,
                 gene1 |-> g1,
                 gene2 |-> g2,
                 colors |-> [i \in 1..n |-> Palette[((i - 1) % Len(Palette)) + 1]]]]

Without(f, key) ==
    [kind |-> "npz",
     arrays |-> [k \in (DOMAIN f.arrays) \ {key} |-> f.arrays[k]]]

(* The example of the specification: four cells, to be read with          *)
(* threshold 3.                                                            *)
ExampleArchive ==
    Archive(<<"t_cells", "b_cells", "monocytes", "nk_cells">>,
            <<1, 4, 5, 2>>, <<1, 5, 2, 6>>)

SmallArchive == Archive(<<"t_cells">>, <<3>>, <<3>>)

(* Labels that differ from a known type in case only, or are unknown *)
OddArchive ==
    Archive(<<"T_cells", "t_cells", "platelets">>, <<2, 3, 3>>, <<3, 3, 2>>)

Files ==
    {[kind |-> "missing"], [kind |-> "corrupt"]}
    \cup {Without(SmallArchive, Keys[k]) : k \in 1..Len(Keys)}
    \cup {Without(Without(SmallArchive, "y"), "gene2")}
    \cup {ExampleArchive, OddArchive}
    \cup UNION {{Archive(ct, g1, g2) :
                    ct \in [1..n -> DataLabels],
                    g1 \in [1..n -> GeneValues],
                    g2 \in [1..n -> GeneValues]} : n \in 0..MaxCells}

(* What can be at the output path before the first run *)
NoFile == [exists |-> FALSE, content |-> <<>>]
StaleImage == [suptitle |-> "An earlier figure"]
OutputFiles == {NoFile, [exists |-> TRUE, content |-> <<StaleImage>>]}

----------------------------------------------------------------------------
(* load_data, lines 31-49.  The six keys are read in the order of the      *)
(* dict literal; the first one the archive lacks raises KeyError.          *)

MissingKeys(arrays) == {k \in 1..Len(Keys) : Keys[k] \notin DOMAIN arrays}

EmptyBundle == [k \in Range(Keys) |-> <<>>]

(* A loader that goes on with no cells when the file is not there *)
load_data_empty_on_missing(filepath, f) ==
    IF f.kind = "missing" \/ f.kind = "corrupt" \/ MissingKeys(f.arrays) # {}
    THEN [outcome |-> "return", value |-> EmptyBundle]
    ELSE [outcome |-> "return",
          value |-> [k \in Range(Keys) |-> f.arrays[k]]]

(* A loader that returns the arrays the archive has *)
load_data_partial(filepath, f) ==
    IF f.kind = "missing" THEN
        [outcome |-> "FileNotFoundError",
         printed |-> <<[tag |-> "error_not_found", path |-> filepath],
                       [tag |-> "hint_generate_data"]>>]
    ELSE IF f.kind = "corrupt" THEN
        [outcome |-> "Exception",
         printed |-> <<[tag |-> "error_loading", e |-> "BadZipFile"]>>]
    ELSE
        [outcome |-> "return",
         value |-> [k \in Range(Keys) |->
                      IF k \in DOMAIN f.arrays THEN f.arrays[k] ELSE <<>>]]

load_data(filepath, f) ==
    IF f.kind = "missing" THEN
        [outcome |-> "FileNotFoundError",
         printed |-> <<[tag |-> "error_not_found", path |-> filepath],
                       [tag |-> "hint_generate_data"]>>]
    ELSE IF f.kind = "corrupt" THEN
        [outcome |-> "Exception",
         printed |-> <<[tag |-> "error_loading", e |-> "BadZipFile"]>>]
    ELSE IF MissingKeys(f.arrays) # {} THEN
        LET k == CHOOSE m \in MissingKeys(f.arrays) :
                    \A o \in MissingKeys(f.arrays) : m <= o
        IN [outcome |-> "Exception",
            printed |-> <<[tag |-> "error_loading", e |-> "KeyError",
                           key |-> Keys[k]]>>]
    ELSE
        [outcome |-> "return",
         value |-> [k \in Range(Keys) |-> f.arrays[k]]]

----------------------------------------------------------------------------
(* numpy on one-dimensional arrays of one length *)

Eq(arr, v) == [i \in 1..Len(arr) |-> arr[i] = v]            \* arr == v
Gt(arr, v) == [i \in 1..Len(arr) |-> arr[i] > v]            \* arr > v
And(m1, m2) == [i \in 1..Len(m1) |-> m1[i] /\ m2[i]]        \* m1 & m2
Inv(m) == [i \in 1..Len(m) |-> ~m[i]]                       \* ~m
AnyTrue(m) == \E i \in 1..Len(m) : m[i]                         \* np.any(m)
CountTrue(m) == Cardinality({i \in 1..Len(m) : m[i]})             \* np.sum(m)

RECURSIVE Take(_, _)
Take(arr, m) ==                                             \* arr[m]
    IF Len(m) = 0 THEN <<>>
    ELSE Take(SubSeq(arr, 1, Len(m) - 1), SubSeq(m, 1, Len(m) - 1))
         \o (IF m[Len(m)] THEN <<arr[Len(m)]>> ELSE <<>>)

(* The indices of the cells an indexing by m selects *)
Cells(m) == Take([i \in 1..Len(m) |-> i], m)

----------------------------------------------------------------------------
(* plot_single_cell_data, lines 51-140.  An axes is the sequence of its    *)
(* artists in the order they were added; an artist drawn with no zorder    *)
(* has matplotlib's default for its kind: 1 for a collection, 2 for a      *)
(* line, 3 for a text, 5 for a legend.                                     *)

(* An artist given no label has one that starts with an underscore, which  *)
(* keeps it out of an automatic legend.                                    *)
NoLabel == [text |-> "_"]

(* str.lower() on the labels of the model *)
Lower(str) == IF str = "T_cells" THEN "t_cells" ELSE str

(* A comparison that ignores case *)
highlight_mask_nocase(d, highlighted_type) ==
    [i \in 1..Len(d.cell_types) |->
        Lower(d.cell_types[i]) = Lower(highlighted_type)]

highlight_mask(d, highlighted_type) == Eq(d.cell_types, highlighted_type)

(* A threshold that is inclusive on the first axis *)
above_threshold_ge(d, th) ==
    And([i \in 1..Len(d.gene1) |-> d.gene1[i] >= th], Gt(d.gene2, th))

above_threshold(d, th) == And(Gt(d.gene1, th), Gt(d.gene2, th))

(* lines 69-78 *)
PanelA(d, highlighted_type) ==
    LET hm == highlight_mask(d, highlighted_type) IN
    <<[kind |-> "scatter", group |-> "others", cells |-> Cells(Inv(hm)),
       x |-> Take(d.x, Inv(hm)), y |-> Take(d.y, Inv(hm)),
       c |-> Take(d.colors, Inv(hm)), s |-> 50, alpha |-> "0.6",
       edgecolors |-> "white", linewidth |-> "0.5", zorder |-> 1,
       label |-> NoLabel]>>
    \o (IF AnyTrue(hm)
        THEN <<[kind |-> "scatter", group |-> "highlighted",
                cells |-> Cells(hm),
                x |-> Take(d.x, hm), y |-> Take(d.y, hm),
                c |-> Take(d.colors, hm), s |-> 120, alpha |-> "0.9",
                edgecolors |-> "gold", linewidth |-> "2.5", zorder |-> 100,
                label |-> NoLabel]>>
        ELSE <<>>)

(* lines 86-91 *)
cell_types_legend ==
    <<[ct_name |-> "t_cells", label |-> "T Cells", color |-> "#e74c3c"],
      [ct_name |-> "b_cells", label |-> "B Cells", color |-> "#3498db"],
      [ct_name |-> "monocytes", label |-> "Monocytes", color |-> "#2ecc71"],
      [ct_name |-> "nk_cells", label |-> "NK Cells", color |-> "#f39c12"]>>

(* label + (' (Selected)' if ... else ''), line 101 *)
LegendLabel(label, selected) ==
    [text |-> label, suffix |-> IF selected THEN " (Selected)" ELSE ""]

(* A legend entry that compares the display label, not the key *)
LegendElement_bylabel(e, highlighted_type) ==
    [kind |-> "scatter", group |-> "legend", cells |-> <<>>,
     x |-> <<>>, y |-> <<>>, c |-> e.color,
     s |-> IF e.label = highlighted_type THEN 120 ELSE 50,
     alpha |-> "0.9",
     edgecolors |-> IF e.label = highlighted_type THEN "gold" ELSE "white",
     linewidth |-> IF e.label = highlighted_type THEN "2.5" ELSE "0.5",
     zorder |-> 1,
     label |-> LegendLabel(e.label, e.label = highlighted_type)]

(* lines 95-102: one empty scatter per entry of the table *)
LegendElement(e, highlighted_type) ==
    [kind |-> "scatter", group |-> "legend", cells |-> <<>>,
     x |-> <<>>, y |-> <<>>, c |-> e.color,
     s |-> IF e.ct_name = highlighted_type THEN 120 ELSE 50,
     alpha |-> "0.9",
     edgecolors |-> IF e.ct_name = highlighted_type THEN "gold" ELSE "white",
     linewidth |-> IF e.ct_name = highlighted_type THEN "2.5" ELSE "0.5",
     zorder |-> 1,
     label |-> LegendLabel(e.label, e.ct_name = highlighted_type)]

(* lines 93-102 *)
legend_elements(highlighted_type) ==
    [i \in 1..Len(cell_types_legend) |->
        LegendElement(cell_types_legend[i], highlighted_type)]

(* ax1.legend(handles=legend_elements, ...), lines 104-105 *)
LegendA(highlighted_type) ==
    [kind |-> "legend", handles |-> legend_elements(highlighted_type),
     zorder |-> 5]

(* lines 110-124 *)
PanelB(d, th) ==
    LET at == above_threshold(d, th) IN
    <<[kind |-> "scatter", group |-> "genes",
       cells |-> [i \in 1..Len(d.gene1) |-> i],
       x |-> d.gene1, y |-> d.gene2, c |-> d.colors, s |-> 80,
       alpha |-> "0.6", edgecolors |-> "white", linewidth |-> "0.5",
       zorder |-> 1, label |-> NoLabel],
      [kind |-> "axhline", pos |-> th, zorder |-> 2,
       label |-> [text |-> "Threshold = ", value |-> th]],
      [kind |-> "axvline", pos |-> th, zorder |-> 2, label |-> NoLabel]>>
    \o (IF AnyTrue(at)
        THEN <<[kind |-> "scatter", group |-> "above", cells |-> Cells(at),
                x |-> Take(d.gene1, at), y |-> Take(d.gene2, at),
                c |-> "none", s |-> 200, alpha |-> "0.7",
                edgecolors |-> "red", linewidth |-> "2.5", zorder |-> 99,
                label |-> NoLabel]>>
        ELSE <<>>)

(* ax2.legend(...) without handles, line 131: the labelled artists of the  *)
(* axes, in the order they were added                                      *)
Labelled(artists) == SelectSeq(artists, LAMBDA a : a.label.text # "_")

(* lines 133-137 *)
CountText(d, th) ==
    [kind |-> "text", n_above |-> CountTrue(above_threshold(d, th)),
     total |-> Len(d.gene1), zorder |-> 3]

(* The whole function.  plt.scatter (line 99) draws into the current axes, *)
(* which after plt.subplots(1, 2) is the one created last, axes[1]: the    *)
(* four empty scatters are the first artists of the second panel.          *)
plot_single_cell_data(d, th, ti, highlighted_type) ==
    LET ax2 == legend_elements(highlighted_type) \o PanelB(d, th) IN
    [suptitle |-> ti,
     ax1 |-> PanelA(d, highlighted_type) \o <<LegendA(highlighted_type)>>,
     ax2 |-> ax2
             \o <<[kind |-> "legend", handles |-> Labelled(ax2),
                   zorder |-> 5]>>
             \o <<CountText(d, th)>>]

----------------------------------------------------------------------------
(* main, lines 142-190 *)

(* cell_type.replace('_', ' ').title(), line 171, on the values that reach *)
(* it: title() capitalises the first letter of each word and lowers the    *)
(* rest.                                                                   *)
DisplayName(ct) ==
    CASE ct = "t_cells" -> "T Cells"
      [] ct = "b_cells" -> "B Cells"
      [] ct = "monocytes" -> "Monocytes"
      [] ct = "nk_cells" -> "Nk Cells"
      [] ct = "x_cells" -> "X Cells"

Emit(lines) == stdout' = stdout \o lines

(* exit(code), or the interpreter's exit after main returned *)
Exit(code) == /\ exit_code' = <<code>>
              /\ pc' = "exited"

Init ==
    /\ sys_argv \in CommandLines
    /\ file \in Files
    /\ output_file \in OutputFiles
    /\ pc = "parse_threshold"
    /\ threshold = None
    /\ title = None
    /\ cell_type = None
    /\ data = None
    /\ fig = None
    /\ stdout = <<>>
    /\ stderr = <<>>
    /\ exit_code = <<>>
    /\ calls = <<>>
    /\ run = 1
    /\ out_at_start = output_file
    /\ prev = <<>>

(* A parse that falls back to the default on a malformed number *)
ParseThreshold_fallback ==
    /\ pc = "parse_threshold"
    /\ pc' = "parse_title"
    /\ IF ArgC > 1
       THEN /\ calls' = Append(calls, "float")
            /\ threshold' = Some(IF FloatOk(Arg(1)) THEN FloatVal(Arg(1))
                                 ELSE DEFAULT_THRESHOLD)
       ELSE /\ threshold' = Some(DEFAULT_THRESHOLD)
            /\ UNCHANGED calls
    /\ UNCHANGED <<sys_argv, file, output_file, title, cell_type, data, fig,
                   stdout, stderr, exit_code, run, out_at_start, prev>>

(* lines 144-147.  A ValueError of float() is caught nowhere: the          *)
(* interpreter writes the traceback to stderr and exits with status 1.     *)
ParseThreshold ==
    /\ pc = "parse_threshold"
    /\ IF ArgC > 1
       THEN /\ calls' = Append(calls, "float")
            /\ IF FloatOk(Arg(1))
               THEN /\ threshold' = Some(FloatVal(Arg(1)))
                    /\ pc' = "parse_title"
                    /\ UNCHANGED <<stderr, exit_code>>
               ELSE /\ stderr' = Append(stderr, [tag |-> "traceback",
                                                 exc |-> "ValueError"])
                    /\ Exit(1)
                    /\ UNCHANGED threshold
       ELSE /\ threshold' = Some(DEFAULT_THRESHOLD)
            /\ pc' = "parse_title"
            /\ UNCHANGED <<calls, stderr, exit_code>>
    /\ UNCHANGED <<sys_argv, file, output_file, title, cell_type, data, fig,
                   stdout, run, out_at_start, prev>>

(* lines 149-152 *)
ParseTitle ==
    /\ pc = "parse_title"
    /\ title' = Some(IF ArgC > 2 THEN Arg(2) ELSE DEFAULT_TITLE)
    /\ pc' = "parse_cell_type"
    /\ UNCHANGED <<sys_argv, file, output_file, threshold, cell_type, data,
                   fig, stdout, stderr, exit_code, calls, run, out_at_start,
                   prev>>

(* A validation that lets every name through *)
IsValidType_any(ct) == ct = ct

(* cell_type not in valid_types, line 157 *)
IsValidType(ct) == ct \in Range(valid_types)

(* lines 154-162 *)
ParseCellType ==
    /\ pc = "parse_cell_type"
    /\ IF ArgC > 3
       THEN /\ cell_type' = Some(Arg(3))
            /\ IF ~IsValidType(Arg(3))
               THEN /\ Emit(<<[tag |-> "error_invalid_cell_type",
                                cell_type |-> Arg(3)],
                               [tag |-> "valid_options",
                                options |-> valid_types]>>)
                    /\ Exit(1)
               ELSE /\ pc' = "summary"
                    /\ UNCHANGED <<stdout, exit_code>>
       ELSE /\ cell_type' = Some(DEFAULT_CELL_TYPE)
            /\ pc' = "summary"
            /\ UNCHANGED <<stdout, exit_code>>
    /\ UNCHANGED <<sys_argv, file, output_file, threshold, title, data, fig,
                   stderr, calls, run, out_at_start, prev>>

(* A run that goes on to load without the summary *)
PrintSummary_silent ==
    /\ pc = "summary"
    /\ pc' = "load"
    /\ UNCHANGED <<sys_argv, file, output_file, threshold, title, cell_type,
                   data, fig, stdout, stderr, exit_code, calls, run,
                   out_at_start, prev>>

(* lines 164-172 *)
PrintSummary ==
    /\ pc = "summary"
    /\ Emit(<<[tag |-> "summary", data_file |-> DATA_PATH,
                threshold |-> threshold[1], title |-> title[1],
                highlighted_type |-> DisplayName(cell_type[1])]>>)
    /\ pc' = "load"
    /\ UNCHANGED <<sys_argv, file, output_file, threshold, title, cell_type,
                   data, fig, stderr, exit_code, calls, run, out_at_start,
                   prev>>

(* lines 174-177, with load_data's own prints and exits *)
LoadData ==
    /\ pc = "load"
    /\ calls' = Append(calls, "load_data")
    /\ LET r == load_data(DATA_PATH, file) IN
       IF r.outcome = "return"
       THEN /\ data' = Some(r.value)
            /\ Emit(<<[tag |-> "loading"],
                       [tag |-> "loaded", cells |-> Len(r.value.x)]>>)
            /\ pc' = "plot"
            /\ UNCHANGED exit_code
       ELSE /\ Emit(<<[tag |-> "loading"]>> \o r.printed)
            /\ Exit(1)
            /\ UNCHANGED data
    /\ UNCHANGED <<sys_argv, file, output_file, threshold, title, cell_type,
                   fig, stderr, run, out_at_start, prev>>

(* lines 179-181 *)
Plot ==
    /\ pc = "plot"
    /\ calls' = Append(calls, "plot_single_cell_data")
    /\ Emit(<<[tag |-> "creating"]>>)
    /\ fig' = Some(plot_single_cell_data(data[1], threshold[1], title[1],
                                          cell_type[1]))
    /\ pc' = "save"
    /\ UNCHANGED <<sys_argv, file, output_file, threshold, title, cell_type,
                   data, stderr, exit_code, run, out_at_start, prev>>

(* A save that adds to the file instead of replacing it *)
savefig_append(old, figure) ==
    [exists |-> TRUE, content |-> Append(old.content, figure)]

(* plt.savefig(output_file, ...), line 186: the file is created or         *)
(* replaced by the image of the figure                                     *)
savefig(old, figure) == [exists |-> TRUE, content |-> <<figure>>]

(* lines 183-187 *)
SavePlot ==
    /\ pc = "save"
    /\ calls' = Append(calls, "savefig")
    /\ output_file' = savefig(output_file, fig[1])
    /\ Emit(<<[tag |-> "saved", path |-> OUTPUT_PATH]>>)
    /\ pc' = "show"
    /\ UNCHANGED <<sys_argv, file, threshold, title, cell_type, data, fig,
                   stderr, exit_code, run, out_at_start, prev>>

(* lines 189-190, and the return of main *)
Show ==
    /\ pc = "show"
    /\ calls' = Append(calls, "show")
    /\ Emit(<<[tag |-> "done"]>>)
    /\ Exit(0)
    /\ UNCHANGED <<sys_argv, file, output_file, threshold, title, cell_type,
                   data, fig, stderr, run, out_at_start, prev>>

(* What a run leaves behind *)
Outcome ==
    [exit_code |-> exit_code, stdout |-> stdout, stderr |-> stderr,
     output_file |-> output_file, calls |-> calls, threshold |-> threshold,
     title |-> title, cell_type |-> cell_type, fig |-> fig]

(* The program is started again (line 193) with the same command line,     *)
(* the input file unchanged and the output file as the last run left it.   *)
Rerun ==
    /\ pc = "exited"
    /\ run < MaxRuns
    /\ run' = run + 1
    /\ prev' = <<Outcome>>
    /\ out_at_start' = output_file
    /\ pc' = "parse_threshold"
    /\ threshold' = None
    /\ title' = None
    /\ cell_type' = None
    /\ data' = None
    /\ fig' = None
    /\ stdout' = <<>>
    /\ stderr' = <<>>
    /\ exit_code' = <<>>
    /\ calls' = <<>>
    /\ UNCHANGED <<sys_argv, file, output_file>>

Next ==
    \/ ParseThreshold
    \/ ParseTitle
    \/ ParseCellType
    \/ PrintSummary
    \/ LoadData
    \/ Plot
    \/ SavePlot
    \/ Show
    \/ Rerun

Spec == Init /\ [][Next]_vars

----------------------------------------------------------------------------
(* Properties.  They are stated over the state of a run, with the four     *)
(* cell types and the fixed texts written out again rather than taken      *)
(* from the definitions above.                                             *)

FourTypes == {"t_cells", "b_cells", "monocytes", "nk_cells"}

Tags(out) == [i \in 1..Len(out) |-> out[i].tag]
Called(fn) == fn \in Range(calls)
Exited == pc = "exited"

(* A run that has not exited has a next step of main() to take *)
NotStuck == ~Exited => ENABLED Next

(* The positional arguments, and what the first one denotes *)
Supplied == Len(sys_argv) - 1
ThresholdText == sys_argv[2]
TitleText == sys_argv[3]
CellTypeText == sys_argv[4]
BadThreshold == Supplied >= 1 /\ ThresholdText = <<"2", "x">>
InvalidCellType == Supplied >= 3 /\ CellTypeText \notin FourTypes

(* Nothing of loading, rendering or saving has happened in this run *)
NothingLoadedOrDrawn ==
    /\ ~Called("load_data")
    /\ ~Called("plot_single_cell_data")
    /\ ~Called("savefig")
    /\ data = <<>>
    /\ fig = <<>>
    /\ output_file = out_at_start
    /\ pc \in {"parse_threshold", "parse_title", "parse_cell_type", "exited"}

InvalidTypeMessage ==
    <<[tag |-> "error_invalid_cell_type", cell_type |-> CellTypeText],
      [tag |-> "valid_options",
       options |-> <<"t_cells", "b_cells", "monocytes", "nk_cells">>]>>

(* C1, as stated: in every run whose third argument is none of the four    *)
(* cell types, whatever the first two arguments are, the program exits     *)
(* with a non-zero code having printed the error that lists the valid      *)
(* options, and never loads, renders or saves.                             *)
C1_Original ==
    InvalidCellType =>
        /\ NothingLoadedOrDrawn
        /\ Exited => /\ exit_code # <<0>>
                     /\ stdout = InvalidTypeMessage

(* C1, amended: in every run whose third argument is none of the four      *)
(* cell types the program never loads, renders or saves and exits with     *)
(* code 1; it prints the error that lists the valid options when the       *)
(* first argument parses as a number, and prints nothing when it does not  *)
(* (the run then ends in the uncaught ValueError before the cell type is   *)
(* looked at).                                                             *)
C1_InvalidCellTypeRejected ==
    InvalidCellType =>
        /\ NothingLoadedOrDrawn
        /\ NotStuck
        /\ Exited => /\ exit_code = <<1>>
                     /\ ~BadThreshold => stdout = InvalidTypeMessage
                     /\ BadThreshold => stdout = <<>>

C1_Witness ==
    /\ InvalidCellType
    /\ ~BadThreshold
    /\ Exited
    /\ exit_code = <<1>>
    /\ stdout = InvalidTypeMessage

(* C9: when the first argument is not a number, the run ends in an         *)
(* uncaught ValueError, with a traceback on stderr, status 1 and nothing   *)
(* on stdout, before the title and the cell type are read, the summary is  *)
(* printed, anything is loaded or the image is written.                    *)
C9_BadThresholdUncaught ==
    BadThreshold =>
        /\ pc \in {"parse_threshold", "exited"}
        /\ stdout = <<>>
        /\ title = <<>>
        /\ cell_type = <<>>
        /\ threshold = <<>>
        /\ NothingLoadedOrDrawn
        /\ NotStuck
        /\ Exited => /\ stderr = <<[tag |-> "traceback", exc |-> "ValueError"]>>
                     /\ exit_code = <<1>>
                     /\ calls = <<"float">>

C9_Witness ==
    /\ BadThreshold
    /\ InvalidCellType
    /\ Exited
    /\ stderr # <<>>

(* The number the first argument denotes, for the arguments of the model *)
ThresholdDenoted ==
    CASE ThresholdText = <<"1">> -> 1
      [] ThresholdText = <<"3">> -> 3

(* C6: with k arguments supplied, the first k of threshold, title and      *)
(* cell type have the supplied values and the others the defaults 2.0,     *)
(* "Single Cell Analysis" and "t_cells"; the title is taken as it is; a    *)
(* run with a defaulted cell type is never rejected for its cell type.     *)
C6_LeftToRightDefaults ==
    /\ threshold # <<>> =>
          threshold = <<IF Supplied >= 1 THEN ThresholdDenoted ELSE 2>>
    /\ title # <<>> =>
          title = <<IF Supplied >= 2 THEN TitleText
                    ELSE "Single Cell Analysis">>
    /\ cell_type # <<>> =>
          cell_type = <<IF Supplied >= 3 THEN CellTypeText ELSE "t_cells">>
    /\ (Supplied < 3 /\ cell_type # <<>>) =>
          /\ pc # "parse_cell_type"
          /\ \A i \in 1..Len(stdout) :
                stdout[i].tag # "error_invalid_cell_type"
          /\ Exited => Called("load_data")

C6_Witness ==
    /\ Supplied = 1
    /\ threshold = <<3>>
    /\ title = <<"Single Cell Analysis">>
    /\ cell_type = <<"t_cells">>
    /\ pc = "load"

(* The output image is as the run found it and nothing was rendered *)
NothingDrawn ==
    /\ ~Called("plot_single_cell_data")
    /\ ~Called("savefig")
    /\ fig = <<>>
    /\ output_file = out_at_start
    /\ pc \notin {"plot", "save", "show"}

(* C3: when there is no file at the input path, the run ends with exit     *)
(* code 1 and never renders or saves, the output image being neither       *)
(* created nor modified; a run that gets to load the data ends right       *)
(* there, having printed the missing path and the hint to generate data.   *)
C3_MissingFile ==
    file.kind = "missing" =>
        /\ NothingDrawn
        /\ NotStuck
        /\ data = <<>>
        /\ Exited => exit_code = <<1>>
        /\ Called("load_data") =>
              /\ Exited
              /\ Len(stdout) >= 2
              /\ SubSeq(stdout, Len(stdout) - 1, Len(stdout)) =
                    <<[tag |-> "error_not_found",
                       path |-> "/data/experiment/single_cell_data.npz"],
                      [tag |-> "hint_generate_data"]>>

C3_Witness ==
    /\ file.kind = "missing"
    /\ Called("load_data")
    /\ Exited
    /\ exit_code = <<1>>
    /\ out_at_start.exists
    /\ output_file = out_at_start

SixKeys == {"x", "y", "cell_types", "gene1", "gene2", "colors"}

(* The input file is there and is not an archive with the six arrays *)
Unloadable ==
    \/ file.kind = "corrupt"
    \/ file.kind = "npz" /\ ~(SixKeys \subseteq DOMAIN file.arrays)

(* C4: when the file is corrupt or lacks one of the six keys, the run      *)
(* that gets to load the data prints the error text and ends with exit     *)
(* code 1, nothing is rendered and no image is written; and load_data      *)
(* returns a bundle only when it read all six keys, the bundle being       *)
(* those six arrays.                                                       *)
C4_OtherLoadErrors ==
    /\ Unloadable =>
          /\ NothingDrawn
          /\ NotStuck
          /\ data = <<>>
          /\ Exited => exit_code = <<1>>
          /\ Called("load_data") =>
                /\ Exited
                /\ stdout # <<>>
                /\ stdout[Len(stdout)].tag = "error_loading"
                /\ file.kind = "npz" =>
                      /\ stdout[Len(stdout)].e = "KeyError"
                      /\ stdout[Len(stdout)].key \in SixKeys \ DOMAIN file.arrays
    /\ data # <<>> =>
          /\ file.kind = "npz"
          /\ SixKeys \subseteq DOMAIN file.arrays
          /\ DOMAIN data[1] = SixKeys
          /\ \A k \in SixKeys : data[1][k] = file.arrays[k]

C4_Witness ==
    /\ file.kind = "npz"
    /\ "gene2" \notin DOMAIN file.arrays
    /\ "y" \in DOMAIN file.arrays
    /\ Called("load_data")
    /\ Exited
    /\ exit_code = <<1>>
    /\ stdout[Len(stdout)].tag = "error_loading"

(* The artists of a panel that satisfy a condition, as indices *)
ArtistsOf(ax, kind, group) ==
    {a \in 1..Len(ax) : ax[a].kind = kind /\ ax[a].group = group}
TextsOf(ax) == {a \in 1..Len(ax) : ax[a].kind = "text"}
LegendsOf(ax) == {a \in 1..Len(ax) : ax[a].kind = "legend"}

(* The cells above the threshold on both axes, from the data as loaded *)
AboveBoth ==
    {i \in 1..Len(data[1].gene1) :
        data[1].gene1[i] > threshold[1] /\ data[1].gene2[i] > threshold[1]}

(* C2: once the figure is built, panel B has one count annotation; its     *)
(* count is the number of cells i with gene1[i] > T and gene2[i] > T, a    *)
(* value equal to T being excluded, and its denominator the number of      *)
(* cells; the open-circle overlay is drawn over exactly those cells, and   *)
(* is absent when there are none.  In the example (T = 3, gene1 =          *)
(* [1,4,5,2], gene2 = [1,5,2,6]) the annotation reads 1/4 and the overlay  *)
(* is on the second cell.                                                  *)
C2_AboveThresholdCount ==
    fig # <<>> =>
        LET ax2 == fig[1].ax2
            over == ArtistsOf(ax2, "scatter", "above")
        IN /\ Cardinality(TextsOf(ax2)) = 1
           /\ \A t \in TextsOf(ax2) :
                 /\ ax2[t].n_above = Cardinality(AboveBoth)
                 /\ ax2[t].total = Len(data[1].x)
           /\ Cardinality(over) = IF AboveBoth = {} THEN 0 ELSE 1
           /\ \A a \in over :
                 /\ Range(ax2[a].cells) = AboveBoth
                 /\ Len(ax2[a].cells) = Cardinality(AboveBoth)
                 /\ ax2[a].c = "none"
           /\ (file = ExampleArchive /\ threshold = <<3>>) =>
                 /\ \A t \in TextsOf(ax2) :
                       ax2[t].n_above = 1 /\ ax2[t].total = 4
                 /\ \A a \in over : ax2[a].cells = <<2>>

(* A cell on the threshold on one axis and above it on the other is left   *)
(* out while another cell is counted.                                      *)
C2_Witness ==
    /\ fig # <<>>
    /\ \E i \in 1..Len(data[1].gene1) :
          /\ data[1].gene1[i] = threshold[1]
          /\ data[1].gene2[i] > threshold[1]
    /\ Cardinality(AboveBoth) = 1
    /\ Len(data[1].gene1) = 2
    /\ \E t \in TextsOf(fig[1].ax2) :
          fig[1].ax2[t].n_above = 1 /\ fig[1].ax2[t].total = 2

(* The entries of the legend of panel A that are drawn as selected *)
LegendA_Of(f) == f.ax1[CHOOSE a \in LegendsOf(f.ax1) : TRUE].handles
IsSelected(h) == h.label.suffix = " (Selected)"
OrderOfTypes == <<"t_cells", "b_cells", "monocytes", "nk_cells">>
NamesOfTypes == <<"T Cells", "B Cells", "Monocytes", "NK Cells">>

(* C5: once the figure is built, panel A has one legend, of four entries,  *)
(* one per known cell type in the fixed order whatever the data hold;      *)
(* the entry of the highlighted type, and no other, has the suffix         *)
(* " (Selected)", marker size 120 and a gold edge, the others size 50 and  *)
(* a white edge; so runs that highlight different types select different   *)
(* entries.                                                                *)
C5_LegendSelection ==
    fig # <<>> =>
        /\ Cardinality(LegendsOf(fig[1].ax1)) = 1
        /\ LET hs == LegendA_Of(fig[1]) IN
           /\ Len(hs) = 4
           /\ \A i \in 1..4 :
                 /\ hs[i].label.text = NamesOfTypes[i]
                 /\ IsSelected(hs[i]) <=> OrderOfTypes[i] = cell_type[1]
                 /\ IsSelected(hs[i]) =>
                       /\ hs[i].s = 120
                       /\ hs[i].edgecolors = "gold"
                 /\ ~IsSelected(hs[i]) =>
                       /\ hs[i].s = 50
                       /\ hs[i].edgecolors = "white"
                       /\ hs[i].label.suffix = ""
           /\ Cardinality({i \in 1..4 : IsSelected(hs[i])}) = 1

(* The third legend entry is selected although no cell is a monocyte *)
C5_Witness ==
    /\ fig # <<>>
    /\ cell_type = <<"monocytes">>
    /\ \A i \in 1..Len(data[1].cell_types) :
          data[1].cell_types[i] # "monocytes"
    /\ IsSelected(LegendA_Of(fig[1])[3])

(* The cells whose label is the highlighted type, from the data as loaded *)
Matching == {i \in 1..Len(data[1].cell_types) :
                data[1].cell_types[i] = cell_type[1]}
AllCells == 1..Len(data[1].cell_types)

(* C10: once the figure is built, the first artist of panel A is the       *)
(* scatter of exactly the cells whose label differs from the highlighted   *)
(* type; when some cell matches, the second is the scatter of exactly the  *)
(* matching cells, added after it and with a zorder above that of every    *)
(* other artist of the panel; when none matches there is no such scatter.  *)
(* Every cell is in exactly one of the two.                                *)
C10_HighlightOnTop ==
    fig # <<>> =>
        LET ax1 == fig[1].ax1
            others == ArtistsOf(ax1, "scatter", "others")
            high == ArtistsOf(ax1, "scatter", "highlighted")
        IN /\ others = {1}
           /\ Range(ax1[1].cells) = AllCells \ Matching
           /\ Len(ax1[1].cells) = Cardinality(AllCells \ Matching)
           /\ high = IF Matching = {} THEN {} ELSE {2}
           /\ \A h \in high :
                 /\ Range(ax1[h].cells) = Matching
                 /\ Len(ax1[h].cells) = Cardinality(Matching)
                 /\ \A a \in 1..Len(ax1) :
                       a # h => /\ ax1[a].zorder < ax1[h].zorder
           /\ \A i \in AllCells :
                 Cardinality({a \in others \cup high :
                                 i \in Range(ax1[a].cells)}) = 1

(* A label that differs from the highlighted type in case only is drawn    *)
(* with the others.                                                        *)
C10_Witness ==
    /\ fig # <<>>
    /\ file = OddArchive
    /\ cell_type = <<"t_cells">>
    /\ fig[1].ax1[1].cells = <<1, 3>>
    /\ fig[1].ax1[2].cells = <<2>>
    /\ fig[1].ax1[2].zorder > fig[1].ax1[3].zorder

(* C7: a run made again with the same command line and the input file      *)
(* unchanged ends as the run before it did: the same exit code, the same   *)
(* output on stdout and stderr, the same resolved parameters, the same     *)
(* figure (its groups of cells and its count) and the same content at the  *)
(* output path; a successful run finds the image of the run before and     *)
(* leaves the file holding the image of its own figure and nothing else.   *)
C7_RerunSameOutcome ==
    (run >= 2 /\ Exited) =>
        /\ exit_code = prev[1].exit_code
        /\ stdout = prev[1].stdout
        /\ stderr = prev[1].stderr
        /\ threshold = prev[1].threshold
        /\ title = prev[1].title
        /\ cell_type = prev[1].cell_type
        /\ fig = prev[1].fig
        /\ output_file = prev[1].output_file
        /\ exit_code = <<0>> =>
              /\ out_at_start = prev[1].output_file
              /\ out_at_start.exists
              /\ output_file.exists
              /\ output_file.content = fig

C7_Witness ==
    /\ run = 2
    /\ Exited
    /\ exit_code = <<0>>
    /\ prev[1].exit_code = <<0>>
    /\ output_file.content = fig
    /\ Len(stdout) = 6

IsPrefix(p, q) == Len(p) <= Len(q) /\ SubSeq(q, 1, Len(p)) = p
Positions(seq, v) == {i \in 1..Len(seq) : seq[i] = v}

(* C8: in every run the calls of main() are, after the parse of the        *)
(* threshold, a prefix of load_data, plot_single_cell_data, savefig, show, *)
(* none being made twice; the parameter summary is the first thing         *)
(* printed in a run that loads and precedes the load; the output file      *)
(* changes only in the one savefig, made with all parameters resolved to   *)
(* a valid cell type and the data loaded; the save confirmation and        *)
(* "Done!" are printed only with the image of the figure in place, and in  *)
(* that order at the end of stdout.                                        *)
C8_FixedOrder ==
    LET steps == SelectSeq(calls, LAMBDA c : c # "float")
        tags == Tags(stdout)
    IN /\ IsPrefix(steps, <<"load_data", "plot_single_cell_data",
                            "savefig", "show">>)
       /\ Positions(calls, "float") \subseteq {1}
       /\ Called("load_data") =>
             /\ IsPrefix(<<"summary", "loading">>, tags)
             /\ Cardinality(Positions(tags, "summary")) = 1
       /\ Positions(tags, "summary") # {} => pc \notin {"summary"}
       /\ output_file # out_at_start => Called("savefig")
       /\ Called("savefig") =>
             /\ threshold # <<>> /\ title # <<>> /\ data # <<>>
             /\ cell_type # <<>> /\ cell_type[1] \in FourTypes
             /\ output_file = [exists |-> TRUE, content |-> fig]
             /\ Cardinality(Positions(calls, "savefig")) = 1
       /\ Positions(tags, "saved") # {} => Called("savefig")
       /\ Positions(tags, "done") # {} =>
             /\ Called("show")
             /\ tags = <<"summary", "loading", "loaded", "creating",
                         "saved", "done">>
             /\ exit_code = <<0>>
       /\ Called("plot_single_cell_data") <=> fig # <<>>
       /\ Called("show") <=> (Exited /\ exit_code = <<0>>)

C8_Witness ==
    /\ Exited
    /\ calls = <<"float", "load_data", "plot_single_cell_data", "savefig",
                 "show">>
    /\ Tags(stdout) = <<"summary", "loading", "loaded", "creating", "saved",
                        "done">>
    /\ output_file # out_at_start

====
